---- MODULE Spec2Model ----
(***************************************************************************)
(* Model of ambassador/envoy/v2/v2route.py: the V2Route compiler           *)
(* (regex_matcher, hostglob_matches, V2Route.__init__, host_constraints,   *)
(* get_route, generate and the generate_* helpers).                        *)
(*                                                                         *)
(* Encoding of Python values:                                              *)
(*   - an optional value (a dict key that may be missing, or None) is a    *)
(*     set with at most one element: {} is None/absent, {v} is v;          *)
(*   - a list is a sequence; a dict is a record;                           *)
(*   - str is a TLA+ string;                                               *)
(*   - a raised exception is the field raised = {"AttributeError"}.        *)
(***************************************************************************)
EXTENDS Integers, Sequences, FiniteSets, TLC

VARIABLES
    cache,      \* config.cache store: cache key -> object
    links,      \* config.cache link graph: set of <<group_id, object>>
    heap,       \* the V2Route objects alive: object -> [cache_key, content]
    routes,     \* config.routes
    last,       \* the last GetRoute call: its arguments and its outcome
    returned,   \* every <<cache key, object>> a GetRoute call has returned
    first,      \* cache key -> arguments of the first GetRoute call that returned for it
    ir,         \* config.ir.ordered_groups()
    run,        \* the last generate run: its config, its get_route calls
    runs,       \* number of generate runs against this cache generation
    c_config, c_group, c_mapping, c_result,       \* V2Route(config, group, mapping)
    h_self, h_prune, h_result                     \* self.host_constraints(prune)

vars == <<cache, links, heap, routes, last, returned, first, ir, run, runs,
          c_config, c_group, c_mapping, c_result,
          h_self, h_prune, h_result>>

cacheVars == <<cache, links, heap, last, returned, first>>
genVars == <<routes, ir, run, runs>>
compileVars == <<c_config, c_group, c_mapping, c_result>>
hostVars == <<h_self, h_prune, h_result>>

----------------------------------------------------------------------------
(* Python helpers *)

None == {}
Some(v) == {v}
Val(o) == CHOOSE v \in o : TRUE
\* dict.get(key, default)
Get(o, default) == IF o = {} THEN default ELSE Val(o)

RECURSIVE SeqMap(_, _)
SeqMap(F(_), s) == IF s = <<>> THEN <<>> ELSE <<F(Head(s))>> \o SeqMap(F, Tail(s))

\* the value of a local the code assigns once: the element of a one-element set
Only(S) == CHOOSE x \in S : TRUE

\* set(list)
ToSet(s) == {s[i] : i \in 1..Len(s)}

UpperAlphabet == "ABCDEFGHIJKLMNOPQRSTUVWXYZ"
LowerAlphabet == "abcdefghijklmnopqrstuvwxyz"

CharLower(c) ==
    IF \E i \in 1..Len(UpperAlphabet) : SubSeq(UpperAlphabet, i, i) = c
    THEN LET i == CHOOSE i \in 1..Len(UpperAlphabet) : SubSeq(UpperAlphabet, i, i) = c
         IN SubSeq(LowerAlphabet, i, i)
    ELSE c

\* str.lower()
RECURSIVE Lower(_)
Lower(s) == IF Len(s) = 0 THEN ""
            ELSE CharLower(SubSeq(s, 1, 1)) \o Lower(SubSeq(s, 2, Len(s)))

\* str.startswith / str.endswith
StartsWith(s, p) == Len(p) <= Len(s) /\ SubSeq(s, 1, Len(p)) = p
EndsWith(s, p) == Len(p) <= Len(s) /\ SubSeq(s, Len(s) - Len(p) + 1, Len(s)) = p

\* "%0.3fs" % (ms / 1000.0), for a whole number of milliseconds: the seconds,
\* then the three decimals, e.g. 3000 -> <<3, 0, 0, 0>> for "3.000s"
FormatSeconds(ms) == <<ms \div 1000, (ms % 1000) \div 100, (ms % 100) \div 10, ms % 10>>

----------------------------------------------------------------------------
(* Program constants *)

DefaultRegexMaxSize == 200
ForcedRegexMaxSize == 200
EdgeStackPrecedence == -1000000
DefaultWeight == 100
DefaultTimeoutMs == 3000

----------------------------------------------------------------------------
(* regex_matcher: a dict with the single key `field` *)

NoLowerRegexMatcher(config, regex, key, safe_key, re_type) ==
    LET mode == IF re_type = None THEN Get(config.regex_type, "safe") ELSE Val(re_type)
    IN IF mode # "unsafe"
       THEN [field |-> IF safe_key = None \/ safe_key = Some("")
                       THEN "safe_" \o key ELSE Val(safe_key),
             google_re2 |-> Some([max_program_size |->
                                    Get(config.regex_max_size, DefaultRegexMaxSize)]),
             regex |-> regex]
       ELSE [field |-> key, google_re2 |-> None, regex |-> regex]

regex_matcher(config, regex, key, safe_key, re_type) ==
    LET mode == IF re_type = None
                THEN Lower(Get(config.regex_type, "safe"))
                ELSE Val(re_type)
    IN IF mode # "unsafe"
       THEN [field |-> IF safe_key = None \/ safe_key = Some("")
                       THEN "safe_" \o key ELSE Val(safe_key),
             google_re2 |-> Some([max_program_size |->
                                    Get(config.regex_max_size, DefaultRegexMaxSize)]),
             regex |-> regex]
       ELSE [field |-> key, google_re2 |-> None, regex |-> regex]

----------------------------------------------------------------------------
(* hostglob_matches; falling off the end returns None, which is falsy *)

hostglob_matches(glob, value) ==
    IF glob = "*" THEN TRUE
    ELSE IF EndsWith(glob, "*") THEN StartsWith(value, SubSeq(glob, 1, Len(glob) - 1))
    ELSE IF StartsWith(glob, "*") THEN EndsWith(value, SubSeq(glob, 2, Len(glob)))
    ELSE value = glob

----------------------------------------------------------------------------
(* V2Route.generate_* helpers *)

generate_headers(config, mapping_group) ==
    LET one(group_header) ==
            IF group_header.regex
            THEN [name |-> group_header.name, exact_match |-> None,
                  regex_match |-> Some(regex_matcher(config, group_header.value,
                                                     "regex_match", None, None))]
            ELSE [name |-> group_header.name, exact_match |-> Some(group_header.value),
                  regex_match |-> None]
    IN SeqMap(one, mapping_group.headers)

generate_query_parameters(config, mapping_group) ==
    LET one(qp) ==
            IF qp.regex
            THEN [name |-> qp.name,
                  string_match |-> Some([exact |-> None,
                                         matcher |-> Some(regex_matcher(config, Val(qp.value),
                                                                        "regex", None, None))]),
                  present_match |-> None]
            ELSE IF qp.value # None
            THEN [name |-> qp.name,
                  string_match |-> Some([exact |-> qp.value, matcher |-> None]),
                  present_match |-> None]
            ELSE [name |-> qp.name, string_match |-> None, present_match |-> Some(TRUE)]
    IN SeqMap(one, mapping_group.query_parameters)

\* the dict hash_policy; its len() is HashPolicyLen
generate_hash_policy(mapping_group) ==
    LET empty == [cookie |-> None, header |-> None, connection_properties |-> None]
        lb == mapping_group.load_balancer
    IN IF lb = None THEN empty
       ELSE LET load_balancer == Val(lb)
            IN IF load_balancer.policy \notin {Some("ring_hash"), Some("maglev")} THEN empty
               ELSE IF load_balancer.cookie # None
               THEN [empty EXCEPT !.cookie = load_balancer.cookie]
               ELSE IF load_balancer.header # None
               THEN [empty EXCEPT !.header = Some([header_name |-> Val(load_balancer.header)])]
               ELSE IF load_balancer.source_ip # None
               THEN [empty EXCEPT !.connection_properties =
                                      Some([source_ip |-> Val(load_balancer.source_ip)])]
               ELSE empty

HashPolicyLen(hash_policy) ==
    Cardinality({f \in DOMAIN hash_policy : hash_policy[f] # None})

\* header_dict is the list of the dict's items; a structured value is a dict
\* with 'value' and an optional 'append'
generate_headers_to_add(header_dict) ==
    LET one(item) ==
            IF item.structured
            THEN [header |-> [key |-> item.key, value |-> item.value],
                  append |-> Get(item.append, TRUE)]
            ELSE [header |-> [key |-> item.key, value |-> item.value], append |-> TRUE]
    IN SeqMap(one, header_dict)

\* [raised, value]: the AttributeError of None.get when the group has no
\* regex_rewrite, else the dict regex_rewrite
generate_regex_rewrite(config, mapping_group) ==
    LET group_regex_rewrite == mapping_group.regex_rewrite
        pattern == IF group_regex_rewrite # None
                   THEN Val(group_regex_rewrite).pattern ELSE None
        withPattern == IF pattern # None
                       THEN Some(regex_matcher(config, Val(pattern), "regex",
                                               Some("pattern"), Some("safe")))
                       ELSE None
    IN IF group_regex_rewrite = None
       THEN [raised |-> Some("AttributeError"),
             value |-> [pattern |-> withPattern, substitution |-> None]]
       ELSE [raised |-> None,
             value |-> [pattern |-> withPattern,
                        substitution |-> Val(group_regex_rewrite).substitution]]

RegexRewriteLen(regex_rewrite) ==
    Cardinality({f \in DOMAIN regex_rewrite : regex_rewrite[f] # None})

----------------------------------------------------------------------------
(* V2Route.__init__ *)

\* len(mapping): the number of keys of the mapping dict
MappingLen(mapping) == Cardinality({f \in DOMAIN mapping : mapping[f] # None})

\* a header-remove value: a list or a bare scalar; its truthiness and the
\* list it is normalised to
Truthy(v) == IF v = None THEN FALSE
             ELSE IF Val(v).islist THEN Val(v).items # <<>> ELSE Val(v).scalar # ""

AsList(v) == IF Val(v).islist THEN Val(v).items ELSE <<Val(v).scalar>>

\* self['match']
V2Route_match(config, group, mapping, precedence) ==
    LET envoy_route == group.envoy_route
        route_prefix == IF mapping.prefix # None THEN Val(mapping.prefix)
                        ELSE Val(group.prefix)
        case_sensitive == IF mapping.case_sensitive # None THEN Val(mapping.case_sensitive)
                          ELSE Get(group.case_sensitive, TRUE)
        runtime_fraction ==
            [default_value |-> [numerator |-> Get(mapping.weight, DefaultWeight),
                                denominator |-> "HUNDRED"],
             runtime_key |-> IF MappingLen(mapping) > 0
                             THEN Some("routing.traffic_shift." \o Val(mapping.cluster))
                             ELSE None]
        pathspec ==
            IF envoy_route = "prefix"
            THEN [field |-> "prefix", google_re2 |-> None, regex |-> route_prefix]
            ELSE IF envoy_route = "path"
            THEN [field |-> "path", google_re2 |-> None, regex |-> route_prefix]
            ELSE IF config.edge_stack_allowed /\ Get(precedence, 0) = EdgeStackPrecedence
            THEN [field |-> "safe_regex",
                  google_re2 |-> Some([max_program_size |-> ForcedRegexMaxSize]),
                  regex |-> route_prefix]
            ELSE regex_matcher(config, route_prefix, "regex", None, None)
        headers == generate_headers(config, group)
        query_parameters == generate_query_parameters(config, group)
    IN [case_sensitive |-> case_sensitive,
        runtime_fraction |-> runtime_fraction,
        pathspec |-> pathspec,
        headers |-> IF Len(headers) > 0 THEN Some(headers) ELSE None,
        query_parameters |-> IF Len(query_parameters) > 0 THEN Some(query_parameters)
                             ELSE None]

\* self, up to the host_redirect branch
V2Route_common(config, group, mapping) ==
    LET precedence == IF group.precedence # None /\ Val(group.precedence) # 0
                      THEN group.precedence ELSE None
    IN [_sni |-> IF group.sni
                 THEN Some([hosts |-> Val(group.tls_context).hosts,
                            secret_info |-> Val(group.tls_context).secret_info])
                 ELSE None,
        _precedence |-> precedence,
        match |-> Some(V2Route_match(config, group, mapping, precedence)),
        per_filter_config |->
            IF Get(mapping.bypass_auth, FALSE)
            THEN Some([envoy_ext_authz |-> [disabled |-> TRUE]]) ELSE None,
        request_headers_to_add |->
            IF group.add_request_headers # <<>>
            THEN Some(generate_headers_to_add(group.add_request_headers)) ELSE None,
        response_headers_to_add |->
            IF group.add_response_headers # <<>>
            THEN Some(generate_headers_to_add(group.add_response_headers)) ELSE None,
        request_headers_to_remove |->
            IF Truthy(group.remove_request_headers)
            THEN Some(AsList(group.remove_request_headers)) ELSE None,
        response_headers_to_remove |->
            IF Truthy(group.remove_response_headers)
            THEN Some(AsList(group.remove_response_headers)) ELSE None,
        redirect |-> None,
        route |-> None]

\* self['redirect']
V2Route_redirect(host_redirect) ==
    [host_redirect |-> host_redirect.service,
     path_redirect |-> IF host_redirect.path_redirect \notin {None, Some("")}
                       THEN host_redirect.path_redirect ELSE None]

BothRewrites(config, group, mapping) ==
    LET regex_rewrite == generate_regex_rewrite(config, group).value
    IN [regex_rewrite |-> IF RegexRewriteLen(regex_rewrite) > 0
                          THEN Some(regex_rewrite) ELSE None,
        prefix_rewrite |-> IF mapping.rewrite \notin {None, Some("")}
                           THEN mapping.rewrite ELSE None]

\* the regex_rewrite / prefix_rewrite keys of route
V2Route_rewrite(config, group, mapping) ==
    LET regex_rewrite == generate_regex_rewrite(config, group).value
    IN IF RegexRewriteLen(regex_rewrite) > 0
       THEN [regex_rewrite |-> Some(regex_rewrite), prefix_rewrite |-> None]
       ELSE IF mapping.rewrite \notin {None, Some("")}
       THEN [regex_rewrite |-> None, prefix_rewrite |-> mapping.rewrite]
       ELSE [regex_rewrite |-> None, prefix_rewrite |-> None]

\* route, the dict stored as self['route']
V2Route_route(config, group, mapping) ==
    LET rewrite == V2Route_rewrite(config, group, mapping)
        hash_policy == generate_hash_policy(group)
        cors == IF group.cors # None THEN group.cors ELSE config.cors
        retry_policy == IF group.retry_policy # None THEN group.retry_policy
                        ELSE config.retry_policy
        shadow == group.shadows
        rlsvc == config.ratelimit
        labels == IF rlsvc # None /\ group.labels # None
                     /\ Val(group.labels).domain = Val(rlsvc).domain
                  THEN Val(group.labels).rls ELSE <<>>
        action_valid(rl) == rl.valid
        to_dict(rl) == rl.action
        rate_limits == SeqMap(to_dict, SelectSeq(labels, action_valid))
        upgrade(proto) == [upgrade_type |-> proto]
    IN [priority |-> group.priority,
        timeout |-> FormatSeconds(Get(mapping.timeout_ms, DefaultTimeoutMs)),
        cluster |-> Val(mapping.cluster),
        idle_timeout |-> IF mapping.idle_timeout_ms # None
                         THEN Some(FormatSeconds(Val(mapping.idle_timeout_ms))) ELSE None,
        regex_rewrite |-> rewrite.regex_rewrite,
        prefix_rewrite |-> rewrite.prefix_rewrite,
        host_rewrite |-> mapping.host_rewrite,
        auto_host_rewrite |-> mapping.auto_host_rewrite,
        hash_policy |-> IF HashPolicyLen(hash_policy) > 0 THEN Some(<<hash_policy>>)
                        ELSE None,
        cors |-> IF cors # None
                 THEN Some([as_dict |-> Val(cors), id |-> group.group_id]) ELSE None,
        retry_policy |-> retry_policy,
        request_mirror_policy |->
            IF shadow # <<>>
            THEN Some([cluster |-> shadow[1].cluster,
                       runtime_fraction |->
                           [default_value |->
                               [numerator |-> Get(shadow[1].weight, DefaultWeight),
                                denominator |-> "HUNDRED"]]])
            ELSE None,
        rate_limits |-> IF rate_limits # <<>> THEN Some(rate_limits) ELSE None,
        upgrade_configs |-> IF group.allow_upgrade # <<>>
                            THEN Some(SeqMap(upgrade, group.allow_upgrade)) ELSE None]

RouteBeforeRedirect(config, group, mapping) ==
    LET self == V2Route_common(config, group, mapping)
    IN IF mapping.cluster # None /\ generate_regex_rewrite(config, group).raised = None
       THEN [raised |-> None,
             self |-> [self EXCEPT !.route = Some(V2Route_route(config, group, mapping)),
                                   !.redirect =
                                       IF group.host_redirect # None
                                       THEN Some(V2Route_redirect(Val(group.host_redirect)))
                                       ELSE None]]
       ELSE IF group.host_redirect # None
       THEN [raised |-> None,
             self |-> [self EXCEPT !.redirect =
                                       Some(V2Route_redirect(Val(group.host_redirect)))]]
       ELSE [raised |-> Some("AttributeError"), self |-> self]

\* V2Route(config, group, mapping): [raised, self]. With raised # None the
\* constructor raised and there is no object; self is then what had been
\* built when it raised.
V2Route(config, group, mapping) ==
    LET self == V2Route_common(config, group, mapping)
    IN IF group.host_redirect # None
       THEN [raised |-> None,
             self |-> [self EXCEPT !.redirect =
                                       Some(V2Route_redirect(Val(group.host_redirect)))]]
       ELSE IF mapping.cluster = None
       THEN [raised |-> Some("AttributeError"), self |-> self]
       ELSE IF generate_regex_rewrite(config, group).raised # None
       THEN [raised |-> generate_regex_rewrite(config, group).raised, self |-> self]
       ELSE [raised |-> None,
             self |-> [self EXCEPT !.route = Some(V2Route_route(config, group, mapping))]]

----------------------------------------------------------------------------
(* V2Route.host_constraints *)

AnyAuthorityConstraints(self, prune_unreachable_routes) ==
    LET ret == ToSet(IF self._sni # None THEN Val(self._sni).hosts ELSE <<"*">>)
        match_headers == IF self.match # None THEN Get(Val(self.match).headers, <<>>)
                         ELSE <<>>
        hit == {i \in 1..Len(match_headers) :
                    match_headers[i].name = ":authority"
                    /\ match_headers[i].exact_match # None}
        ok == {Val(match_headers[i].exact_match) : i \in hit}
    IN IF prune_unreachable_routes /\ hit # {}
       THEN {v \in ok : \E glob \in ret : hostglob_matches(glob, v)}
       ELSE ret

host_constraints(self, prune_unreachable_routes) ==
    LET ret == ToSet(IF self._sni # None THEN Val(self._sni).hosts ELSE <<"*">>)
        match_headers == IF self.match # None THEN Get(Val(self.match).headers, <<>>)
                         ELSE <<>>
        hit == {i \in 1..Len(match_headers) :
                    match_headers[i].name = ":authority"
                    /\ match_headers[i].exact_match # None}
    IN IF prune_unreachable_routes /\ hit # {}
       THEN LET header == match_headers[CHOOSE i \in hit : \A j \in hit : i <= j]
            IN IF \E glob \in ret : hostglob_matches(glob, Val(header.exact_match))
               THEN {Val(header.exact_match)}
               ELSE {}
       ELSE ret

----------------------------------------------------------------------------
(* config.cache: the store and the link graph *)

\* config.cache[key]
CacheLookup(store, key) == IF key \in DOMAIN store THEN Some(store[key]) ELSE None

\* config.cache.add(rsrc): stored under rsrc.cache_key
CacheAdd(store, objects, rsrc) ==
    IF objects[rsrc].cache_key = None THEN store
    ELSE (Val(objects[rsrc].cache_key) :> rsrc) @@ store

\* config.cache.link(owner, owned)
CacheLink(graph, owner, owned) == graph \cup {<<owner.group_id, owned>>}

\* a fresh object: objects are named by the key they were made for and a
\* serial number
NewObject(objects, cache_key) ==
    <<cache_key, 1 + Cardinality({o \in DOMAIN objects : o[1] = cache_key})>>

----------------------------------------------------------------------------
(* V2Route.get_route; st is [cache, links, heap] *)

get_route_always_miss(st, config, cache_key, irgroup, mapping) ==
    LET made == V2Route(config, irgroup, mapping)
        route == NewObject(st.heap, cache_key)
        heap1 == (route :> [cache_key |-> Some(cache_key), content |-> made.self]) @@ st.heap
    IN IF made.raised # None
       THEN [cache |-> st.cache, links |-> st.links, heap |-> st.heap,
             raised |-> made.raised, hit |-> FALSE, route |-> None]
       ELSE [cache |-> CacheAdd(st.cache, heap1, route),
             links |-> CacheLink(st.links, irgroup, route),
             heap |-> heap1, raised |-> None, hit |-> FALSE, route |-> Some(route)]

get_route_no_link(st, config, cache_key, irgroup, mapping) ==
    LET cached_route == CacheLookup(st.cache, cache_key)
        made == V2Route(config, irgroup, mapping)
        route == NewObject(st.heap, cache_key)
        heap1 == (route :> [cache_key |-> Some(cache_key), content |-> made.self]) @@ st.heap
    IN IF cached_route # None
       THEN [cache |-> st.cache, links |-> st.links, heap |-> st.heap,
             raised |-> None, hit |-> TRUE, route |-> cached_route]
       ELSE IF made.raised # None
       THEN [cache |-> st.cache, links |-> st.links, heap |-> st.heap,
             raised |-> made.raised, hit |-> FALSE, route |-> None]
       ELSE [cache |-> CacheAdd(st.cache, heap1, route), links |-> st.links,
             heap |-> heap1, raised |-> None, hit |-> FALSE, route |-> Some(route)]

get_route_refresh_on_hit(st, config, cache_key, irgroup, mapping) ==
    LET cached_route == CacheLookup(st.cache, cache_key)
        made == V2Route(config, irgroup, mapping)
        route == NewObject(st.heap, cache_key)
        heap1 == (route :> [cache_key |-> Some(cache_key), content |-> made.self]) @@ st.heap
    IN IF cached_route # None
       THEN [cache |-> st.cache, links |-> st.links,
             heap |-> IF made.raised = None
                      THEN [st.heap EXCEPT ![Val(cached_route)].content = made.self]
                      ELSE st.heap,
             raised |-> None, hit |-> TRUE, route |-> cached_route]
       ELSE IF made.raised # None
       THEN [cache |-> st.cache, links |-> st.links, heap |-> st.heap,
             raised |-> made.raised, hit |-> FALSE, route |-> None]
       ELSE [cache |-> CacheAdd(st.cache, heap1, route),
             links |-> CacheLink(st.links, irgroup, route),
             heap |-> heap1, raised |-> None, hit |-> FALSE, route |-> Some(route)]

\* [cache, links, heap, raised, hit, route]: the cache after the call, the
\* exception V2Route raised if any, and the route returned
get_route(st, config, cache_key, irgroup, mapping) ==
    LET cached_route == CacheLookup(st.cache, cache_key)
        made == V2Route(config, irgroup, mapping)
        route == NewObject(st.heap, cache_key)
        \* route.cache_key = cache_key
        heap1 == (route :> [cache_key |-> Some(cache_key), content |-> made.self]) @@ st.heap
    IN IF cached_route # None
       THEN [cache |-> st.cache, links |-> st.links, heap |-> st.heap,
             raised |-> None, hit |-> TRUE, route |-> cached_route]
       ELSE IF made.raised # None
       THEN [cache |-> st.cache, links |-> st.links, heap |-> st.heap,
             raised |-> made.raised, hit |-> FALSE, route |-> None]
       ELSE [cache |-> CacheAdd(st.cache, heap1, route),
             links |-> CacheLink(st.links, irgroup, route),
             heap |-> heap1, raised |-> None, hit |-> FALSE, route |-> Some(route)]

----------------------------------------------------------------------------
(* V2Route.generate; acc is [cache, links, heap, routes, raised, calls] *)

\* typecast(IRBaseMapping, {})
EmptyMapping ==
    [cache_key |-> None, prefix |-> None, case_sensitive |-> None, weight |-> None,
     cluster |-> None, bypass_auth |-> None, timeout_ms |-> None,
     idle_timeout_ms |-> None, rewrite |-> None, host_rewrite |-> None,
     auto_host_rewrite |-> None]

\* f"Route-{irgroup.group_id}-{suffix}"
RouteKey(irgroup, suffix) == "Route-" \o irgroup.group_id \o "-" \o suffix

\* route = config.save_element('route', irgroup, cls.get_route(...));
\* config.routes.append(route). Nothing more runs once a call has raised.
generate_route(cached, acc, config, key, irgroup, mapping) ==
    IF acc.raised # None THEN acc
    ELSE Only({[cache |-> r.cache, links |-> r.links, heap |-> r.heap,
                routes |-> IF r.raised = None THEN Append(acc.routes, Val(r.route))
                           ELSE acc.routes,
                raised |-> r.raised,
                calls |-> Append(acc.calls,
                                 [config |-> config, key |-> key, group |-> irgroup,
                                  mapping |-> mapping, hit |-> r.hit, raised |-> r.raised,
                                  route |-> r.route])] :
               r \in {IF cached
                      THEN get_route([cache |-> acc.cache, links |-> acc.links,
                                      heap |-> acc.heap],
                                     config, key, irgroup, mapping)
                      ELSE get_route_always_miss([cache |-> acc.cache, links |-> acc.links,
                                                  heap |-> acc.heap],
                                                 config, key, irgroup, mapping)}})

\* for mapping in irgroup.mappings
RECURSIVE generate_mappings(_, _, _, _, _)
generate_mappings(cached, acc, config, irgroup, mappings) ==
    IF mappings = <<>> THEN acc
    ELSE Only({generate_mappings(cached, next, config, irgroup, Tail(mappings)) :
               next \in {generate_route(cached, acc, config,
                                        RouteKey(irgroup, Val(Head(mappings).cache_key)),
                                        irgroup, Head(mappings))}})

\* for irgroup in config.ir.ordered_groups()
RECURSIVE generate_groups(_, _, _, _)
generate_groups(cached, acc, config, groups) ==
    IF groups = <<>> THEN acc
    ELSE LET irgroup == Head(groups)
         IN Only({generate_groups(cached, next, config, Tail(groups)) :
                  next \in {IF irgroup.kind # "IRHTTPMappingGroup" THEN acc
                            ELSE generate_mappings(cached, redirected, config, irgroup,
                                                   irgroup.mappings) :
                            redirected \in
                                {IF irgroup.host_redirect # None /\ Len(irgroup.mappings) = 0
                                 THEN generate_route(cached, acc, config,
                                                     RouteKey(irgroup, "hostredirect"),
                                                     irgroup, EmptyMapping)
                                 ELSE acc}}})

generate_uncached(st, config, groups) ==
    Only({generate_groups(FALSE, acc, config, groups) :
          acc \in {[cache |-> st.cache, links |-> st.links, heap |-> st.heap,
                    routes |-> <<>>, raised |-> None, calls |-> <<>>]}})

\* config.routes = [] and then the loop
generate(st, config, groups) ==
    Only({generate_groups(TRUE, acc, config, groups) :
          acc \in {[cache |-> st.cache, links |-> st.links, heap |-> st.heap,
                    routes |-> <<>>, raised |-> None, calls |-> <<>>]}})

----------------------------------------------------------------------------
(* Inputs: the IR objects the compiler reads *)

\* fields of r replace those of base
Override(base, r) == [f \in DOMAIN base |-> IF f \in DOMAIN r THEN r[f] ELSE base[f]]

\* a mapping with only what every real mapping has
BaseMapping == [EmptyMapping EXCEPT !.cache_key = Some("m1"), !.cluster = Some("c1")]

BaseGroup ==
    [group_id |-> "g1", kind |-> "IRHTTPMappingGroup", sni |-> FALSE, tls_context |-> None,
     precedence |-> None, envoy_route |-> "prefix", prefix |-> Some("/foo/"),
     case_sensitive |-> None, headers |-> <<>>, query_parameters |-> <<>>,
     add_request_headers |-> <<>>, add_response_headers |-> <<>>,
     remove_request_headers |-> None, remove_response_headers |-> None,
     host_redirect |-> None, priority |-> None, regex_rewrite |-> None,
     load_balancer |-> None, cors |-> None, retry_policy |-> None, shadows |-> <<>>,
     labels |-> None, allow_upgrade |-> <<>>, mappings |-> <<>>]

BaseConfig ==
    [regex_type |-> None, regex_max_size |-> None, edge_stack_allowed |-> FALSE,
     cors |-> None, retry_policy |-> None, ratelimit |-> None]

RegexTypes == {None, Some("safe"), Some("unsafe"), Some("Unsafe")}

ModuleChoices ==
    { [regex_max_size |-> None],
      [regex_max_size |-> Some(100), cors |-> Some("module-cors"),
       retry_policy |-> Some("module-retry"), ratelimit |-> Some([domain |-> "ambassador"])] }

Configs ==
    { Override(BaseConfig, [regex_type |-> t, edge_stack_allowed |-> e] @@ m) :
        t \in RegexTypes, e \in BOOLEAN, m \in ModuleChoices }

PathChoices ==
    { [envoy_route |-> e, precedence |-> p] :
        e \in {"prefix", "path", "regex"}, p \in {None, Some(EdgeStackPrecedence)} }

RedirectChoices ==
    { [host_redirect |-> None],
      [host_redirect |-> Some([service |-> "redirect.example", path_redirect |-> None])],
      [host_redirect |-> Some([service |-> "redirect.example",
                               path_redirect |-> Some("/moved")])] }

RegexRewriteChoices ==
    { [regex_rewrite |-> None],
      [regex_rewrite |-> Some([pattern |-> None, substitution |-> None])],
      [regex_rewrite |-> Some([pattern |-> Some("^/a"), substitution |-> None])],
      [regex_rewrite |-> Some([pattern |-> Some("^/a"), substitution |-> Some("/b")])] }

MatcherChoices ==
    { [headers |-> <<>>],
      [headers |-> <<[name |-> "x-id", value |-> "7", regex |-> FALSE]>>,
       query_parameters |-> <<[name |-> "q", value |-> Some("1"), regex |-> FALSE]>>],
      [headers |-> <<[name |-> "x-id", value |-> "[0-9]+", regex |-> TRUE]>>,
       query_parameters |-> <<[name |-> "q", value |-> Some("[a-z]+"), regex |-> TRUE]>>],
      [headers |-> <<[name |-> ":authority", value |-> "a.c", regex |-> FALSE]>>,
       query_parameters |-> <<[name |-> "q", value |-> None, regex |-> FALSE]>>] }

GroupExtraChoices ==
    { [sni |-> FALSE],
      [sni |-> TRUE,
       tls_context |-> Some([hosts |-> <<"*.c">>, secret_info |-> "secret"]),
       case_sensitive |-> Some(FALSE), priority |-> Some("high"),
       add_request_headers |-> <<[key |-> "x-a", structured |-> TRUE, value |-> "v",
                                  append |-> Some(FALSE)]>>,
       add_response_headers |-> <<[key |-> "x-b", structured |-> FALSE, value |-> "w",
                                   append |-> None]>>,
       remove_request_headers |-> Some([islist |-> FALSE, scalar |-> "x-c", items |-> <<>>]),
       remove_response_headers |-> Some([islist |-> TRUE, scalar |-> "",
                                         items |-> <<"x-d", "x-e">>]),
       load_balancer |-> Some([policy |-> Some("ring_hash"),
                               cookie |-> Some([name |-> "sticky", path |-> None,
                                                ttl |-> Some("60s")]),
                               header |-> Some("x-lb"), source_ip |-> None]),
       cors |-> Some("group-cors"), retry_policy |-> Some("group-retry"),
       shadows |-> <<[cluster |-> "shadow1", weight |-> Some(10)],
                     [cluster |-> "shadow2", weight |-> None]>>,
       labels |-> Some([domain |-> "ambassador",
                        rls |-> <<[valid |-> TRUE, action |-> "a1"],
                                  [valid |-> FALSE, action |-> "a2"]>>]),
       allow_upgrade |-> <<"websocket", "spdy">>],
      [remove_request_headers |-> Some([islist |-> FALSE, scalar |-> "", items |-> <<>>]),
       remove_response_headers |-> Some([islist |-> TRUE, scalar |-> "", items |-> <<>>]),
       load_balancer |-> Some([policy |-> Some("round_robin"), cookie |-> None,
                               header |-> Some("x-lb"), source_ip |-> Some(TRUE)]),
       shadows |-> <<[cluster |-> "shadow1", weight |-> None]>>,
       labels |-> Some([domain |-> "ambassador",
                        rls |-> <<[valid |-> FALSE, action |-> "a2"]>>])] }

Groups ==
    { Override(BaseGroup, a @@ b @@ c @@ d @@ e) :
        a \in PathChoices, b \in RedirectChoices, c \in RegexRewriteChoices,
        d \in MatcherChoices, e \in GroupExtraChoices }

MappingExtraChoices ==
    { [prefix |-> None],
      [prefix |-> Some("/bar/"), case_sensitive |-> Some(TRUE), weight |-> Some(30),
       bypass_auth |-> Some(TRUE), timeout_ms |-> Some(1500), idle_timeout_ms |-> Some(30000),
       host_rewrite |-> Some("h.example"), auto_host_rewrite |-> Some(TRUE)],
      [bypass_auth |-> Some(FALSE), idle_timeout_ms |-> Some(0)] }

RealMappings ==
    { Override(BaseMapping, [rewrite |-> w] @@ x) :
        w \in {None, Some(""), Some("/x")}, x \in MappingExtraChoices }

\* generate passes the empty mapping only for a group with a host_redirect
MappingsFor(group) ==
    RealMappings \cup (IF group.host_redirect # None THEN {EmptyMapping} ELSE {})

----------------------------------------------------------------------------
(* Bounds *)

MaxHosts == 2       \* length of tls_context.hosts
MaxHeaders == 2     \* number of header matchers of a group
MaxGroups == 2      \* length of ordered_groups()
MaxMappings == 2    \* number of mappings of a group
MaxRuns == 3        \* generate runs against one cache generation

SeqsUpTo(S, n) == UNION {[1..k -> S] : k \in 0..n}

----------------------------------------------------------------------------
(* Initial values of each part of the state *)

NoCall == [made |-> FALSE]

InitCache ==
    /\ cache = <<>>
    /\ links = {}
    /\ heap = <<>>
    /\ last = NoCall
    /\ returned = {}
    /\ first = <<>>

IdleGenerate ==
    /\ routes = <<>>
    /\ ir = <<>>
    /\ run = NoCall
    /\ runs = 0

IdleCompile ==
    /\ c_config = BaseConfig
    /\ c_group = BaseGroup
    /\ c_mapping = BaseMapping
    /\ c_result = None

IdleHost ==
    /\ h_self = None
    /\ h_prune = FALSE
    /\ h_result = None

----------------------------------------------------------------------------
(* V2Route(config, group, mapping) on every input *)

InitCompile ==
    /\ c_config \in Configs
    /\ c_group \in Groups
    /\ c_mapping \in MappingsFor(c_group)
    /\ c_result = None
    /\ InitCache /\ IdleGenerate /\ IdleHost

Compile ==
    /\ c_result = None
    /\ c_result' = Some(V2Route(c_config, c_group, c_mapping))
    /\ UNCHANGED <<c_config, c_group, c_mapping>>
    /\ UNCHANGED <<cacheVars, genVars, hostVars>>

NextCompile == Compile

SpecCompile == InitCompile /\ [][NextCompile]_vars

----------------------------------------------------------------------------
(* self.host_constraints(prune_unreachable_routes) on compiled routes *)

HostGlobs == {"*", "a.*", "*.c", "a.c", "*a.c", "b.c*"}
AuthorityValues == {"a.c", "a.b", "b.c", "xa.c"}

HeaderSpecs ==
    {[name |-> ":authority", value |-> v, regex |-> FALSE] : v \in AuthorityValues}
    \cup {[name |-> ":authority", value |-> "a\\..*", regex |-> TRUE],
          [name |-> "x-id", value |-> "a.c", regex |-> FALSE]}

HostGroups ==
    { Override(BaseGroup,
               [regex_rewrite |-> Some([pattern |-> None, substitution |-> None]),
                headers |-> hs] @@ t) :
        hs \in SeqsUpTo(HeaderSpecs, MaxHeaders),
        t \in {[sni |-> FALSE]}
              \cup {[sni |-> TRUE,
                     tls_context |-> Some([hosts |-> h, secret_info |-> "secret"])] :
                        h \in SeqsUpTo(HostGlobs, MaxHosts)} }

InitHost ==
    /\ \E g \in HostGroups, t \in {None, Some("unsafe")} :
          h_self = Some(V2Route(Override(BaseConfig, [regex_type |-> t]), g, BaseMapping).self)
    /\ h_prune \in BOOLEAN
    /\ h_result = None
    /\ InitCache /\ IdleGenerate /\ IdleCompile

HostConstraints ==
    /\ h_result = None
    /\ h_result' = Some(host_constraints(Val(h_self), h_prune))
    /\ UNCHANGED <<h_self, h_prune>>
    /\ UNCHANGED <<cacheVars, genVars, compileVars>>

NextHost == HostConstraints

SpecHost == InitHost /\ [][NextHost]_vars

----------------------------------------------------------------------------
(* get_route calls against one cache generation *)

SecondMapping == [BaseMapping EXCEPT !.cache_key = Some("m2"), !.cluster = Some("c2")]

\* group g1 with a regex path, so that its routes depend on the regex mode
RegexGroup ==
    Override(BaseGroup,
             [envoy_route |-> "regex", prefix |-> Some("^/foo"),
              regex_rewrite |-> Some([pattern |-> None, substitution |-> None]),
              mappings |-> <<BaseMapping, SecondMapping>>])

\* group g1 after a change of its content
ChangedGroup == [RegexGroup EXCEPT !.prefix = Some("^/bar")]

\* group g2: a host_redirect and no mappings
RedirectGroup ==
    Override(BaseGroup,
             [group_id |-> "g2",
              host_redirect |-> Some([service |-> "redirect.example",
                                      path_redirect |-> None])])

\* group g3: one mapping and no regex_rewrite
PlainGroup == Override(BaseGroup, [group_id |-> "g3", mappings |-> <<BaseMapping>>])

CacheConfigs == {BaseConfig, [BaseConfig EXCEPT !.regex_type = Some("unsafe")]}
CacheGroups == {RegexGroup, ChangedGroup, RedirectGroup, PlainGroup}

\* the <<cache_key, mapping>> pairs generate calls get_route with for irgroup
CallsOf(irgroup) ==
    {<<RouteKey(irgroup, Val(irgroup.mappings[j].cache_key)), irgroup.mappings[j]>> :
        j \in 1..Len(irgroup.mappings)}
    \cup (IF irgroup.host_redirect # None /\ Len(irgroup.mappings) = 0
          THEN {<<RouteKey(irgroup, "hostredirect"), EmptyMapping>>} ELSE {})

Init ==
    /\ InitCache
    /\ IdleGenerate /\ IdleCompile /\ IdleHost

GetRoute(config, cache_key, irgroup, mapping) ==
    \E r \in {get_route([cache |-> cache, links |-> links, heap |-> heap],
                        config, cache_key, irgroup, mapping)} :
       /\ cache' = r.cache
       /\ links' = r.links
       /\ heap' = r.heap
       /\ last' = [made |-> TRUE, config |-> config, key |-> cache_key, group |-> irgroup,
                   mapping |-> mapping, hit |-> r.hit, raised |-> r.raised,
                   route |-> r.route]
       /\ returned' = IF r.route # None THEN returned \cup {<<cache_key, Val(r.route)>>}
                      ELSE returned
       /\ first' = IF r.route # None /\ cache_key \notin DOMAIN first
                   THEN (cache_key :> [config |-> config, group |-> irgroup,
                                       mapping |-> mapping]) @@ first
                   ELSE first
       /\ UNCHANGED <<genVars, compileVars, hostVars>>

Next ==
    \E config \in CacheConfigs, irgroup \in CacheGroups :
        \E call \in CallsOf(irgroup) : GetRoute(config, call[1], irgroup, call[2])

Spec == Init /\ [][Next]_vars

----------------------------------------------------------------------------
(* generate runs over a fixed IR *)

MappingOf(j) ==
    [BaseMapping EXCEPT !.cache_key = Some("m" \o ToString(j)),
                        !.cluster = Some("c" \o ToString(j))]

GroupVariants ==
    {[kind |-> "IRTCPMappingGroup", shape |-> "route", n |-> 1]}
    \cup [kind : {"IRHTTPMappingGroup"}, shape : {"redirect", "route", "norewrite"},
          n : 0..MaxMappings]

\* the i-th group: a redirect group, a group with a regex_rewrite, or a
\* group without one, with n mappings
GroupOf(i, v) ==
    Override(BaseGroup,
             [group_id |-> "g" \o ToString(i), kind |-> v.kind,
              envoy_route |-> "regex", prefix |-> Some("^/p"),
              host_redirect |-> IF v.shape = "redirect"
                                THEN Some([service |-> "redirect.example",
                                           path_redirect |-> None])
                                ELSE None,
              regex_rewrite |-> IF v.shape = "route"
                                THEN Some([pattern |-> Some("^/a"),
                                           substitution |-> Some("/b")])
                                ELSE None,
              mappings |-> [j \in 1..v.n |-> MappingOf(j)]])

IRs == {[i \in 1..Len(vs) |-> GroupOf(i, vs[i])] : vs \in SeqsUpTo(GroupVariants, MaxGroups)}

InitGenerate ==
    /\ InitCache
    /\ routes = <<>>
    /\ ir \in IRs
    /\ run = NoCall
    /\ runs = 0
    /\ IdleCompile /\ IdleHost

\* one pass of V2Route.generate; a pass that raised is not followed by
\* another one against the same cache generation
Generate(config) ==
    /\ runs < MaxRuns
    /\ run.made => run.raised = None
    /\ \E r \in {generate([cache |-> cache, links |-> links, heap |-> heap], config, ir)} :
          /\ cache' = r.cache
          /\ links' = r.links
          /\ heap' = r.heap
          /\ routes' = r.routes
          /\ run' = [made |-> TRUE, config |-> config, raised |-> r.raised,
                     calls |-> SeqMap(LAMBDA c : [key |-> c.key, hit |-> c.hit,
                                                  raised |-> c.raised, route |-> c.route],
                                      r.calls)]
    /\ runs' = runs + 1
    /\ UNCHANGED <<ir, last, returned, first, compileVars, hostVars>>

\* the driver discards the cache generation and starts a new one
DiscardGeneration ==
    /\ runs > 0
    /\ cache' = <<>>
    /\ links' = {}
    /\ heap' = <<>>
    /\ routes' = <<>>
    /\ run' = NoCall
    /\ runs' = 0
    /\ UNCHANGED <<ir, last, returned, first, compileVars, hostVars>>

NextGenerate ==
    \/ \E config \in CacheConfigs : Generate(config)
    \/ DiscardGeneration

SpecGenerate == InitGenerate /\ [][NextGenerate]_vars

----------------------------------------------------------------------------
(* Claims about host_constraints, under SpecHost *)

\* the glob rules as the claim words them
GlobRule(glob, value) ==
    LET n == Len(glob)
        m == Len(value)
    IN IF glob = "*" THEN TRUE
       ELSE IF n > 0 /\ SubSeq(glob, n, n) = "*"
       THEN m >= n - 1 /\ \A i \in 1..(n - 1) : SubSeq(value, i, i) = SubSeq(glob, i, i)
       ELSE IF n > 0 /\ SubSeq(glob, 1, 1) = "*"
       THEN m >= n - 1
            /\ \A i \in 2..n : SubSeq(value, m - n + i, m - n + i) = SubSeq(glob, i, i)
       ELSE value = glob

HostBase(self) == IF self._sni # None
                  THEN {Val(self._sni).hosts[i] : i \in 1..Len(Val(self._sni).hosts)}
                  ELSE {"*"}

AuthorityExact(self) ==
    LET hs == Get(Val(self.match).headers, <<>>)
    IN SelectSeq(hs, LAMBDA h : h.name = ":authority" /\ h.exact_match # None)

\* C4: host_constraints returns the base set (the SNI hosts, else {"*"}) when
\* prune is false or no ":authority" exact_match matcher exists; otherwise it
\* looks at the first such matcher only and returns {its value} if the value
\* matches a glob of the base set and {} if not.
C4_HostConstraints ==
    h_result # None =>
        LET self == Val(h_self)
            auth == AuthorityExact(self)
        IN IF ~h_prune \/ auth = <<>>
           THEN Val(h_result) = HostBase(self)
           ELSE LET v == Val(auth[1].exact_match)
                IN Val(h_result) = IF \E glob \in HostBase(self) : GlobRule(glob, v)
                                   THEN {v} ELSE {}

\* pruning narrowed to the first of two differing ":authority" values, which
\* only a suffix glob of the SNI hosts matches
C4_Witness ==
    /\ h_result # None /\ h_prune
    /\ LET self == Val(h_self)
           auth == AuthorityExact(self)
       IN /\ Len(auth) = 2
          /\ auth[1].exact_match = Some("xa.c")
          /\ auth[2].exact_match = Some("a.b")
          /\ HostBase(self) = {"*a.c", "b.c*"}
    /\ Val(h_result) = {"xa.c"}

----------------------------------------------------------------------------
(* Claims about V2Route(config, group, mapping), under SpecCompile *)

Compiled == c_result # None /\ Val(c_result).raised = None
Artifact == Val(c_result).self

\* C5: compiling never raises because an optional field is absent, and the
\* group with one mapping (prefix /foo/, weight 100, cluster c1, no timeout,
\* no redirect, no regex-rewrite) compiles to match.prefix "/foo/",
\* route.timeout "3.000s", route.cluster "c1" and no idle_timeout.
C5_AbsentOptionalNeverRaises ==
    c_result # None =>
        /\ Val(c_result).raised = None
        /\ (c_group = BaseGroup /\ c_mapping = [BaseMapping EXCEPT !.weight = Some(100)]) =>
              /\ Val(Artifact.match).pathspec.field = "prefix"
              /\ Val(Artifact.match).pathspec.regex = "/foo/"
              /\ Artifact.route # None
              /\ Val(Artifact.route).timeout = <<3, 0, 0, 0>>
              /\ Val(Artifact.route).cluster = "c1"
              /\ Val(Artifact.route).idle_timeout = None

\* C6: a compiled artifact carries redirect and no route exactly when the
\* group has a host_redirect, and route and no redirect otherwise; either
\* way match is attached and per_filter_config and the four header fields
\* are present exactly when non-empty.
C6_RedirectXorRoute ==
    Compiled =>
        /\ (Artifact.redirect # None) <=> (c_group.host_redirect # None)
        /\ (Artifact.route # None) <=> (c_group.host_redirect = None)
        /\ Artifact.redirect # None =>
              /\ Val(Artifact.redirect).host_redirect = Val(c_group.host_redirect).service
              /\ Val(Artifact.redirect).path_redirect = Val(c_group.host_redirect).path_redirect
        /\ Artifact.match # None
        /\ (Artifact.per_filter_config # None) <=> (c_mapping.bypass_auth = Some(TRUE))
        /\ (Artifact.request_headers_to_add # None) <=> (Len(c_group.add_request_headers) > 0)
        /\ Artifact.request_headers_to_add # None =>
              Len(Val(Artifact.request_headers_to_add)) = Len(c_group.add_request_headers)
        /\ (Artifact.response_headers_to_add # None) <=> (Len(c_group.add_response_headers) > 0)
        /\ Artifact.response_headers_to_add # None =>
              Len(Val(Artifact.response_headers_to_add)) = Len(c_group.add_response_headers)
        /\ \A f \in {<<"remove_request_headers", "request_headers_to_remove">>,
                     <<"remove_response_headers", "response_headers_to_remove">>} :
              LET given == c_group[f[1]]
                  names == IF given = None THEN <<>>
                           ELSE IF Val(given).islist THEN Val(given).items
                           ELSE IF Val(given).scalar = "" THEN <<>>
                           ELSE <<Val(given).scalar>>
              IN Artifact[f[2]] = IF names = <<>> THEN None ELSE Some(names)

\* a redirect artifact that still got its filter override and header fields
C6_Witness ==
    /\ Compiled
    /\ Artifact.redirect # None /\ Artifact.route = None
    /\ Val(Artifact.redirect).path_redirect = Some("/moved")
    /\ c_mapping.cluster # None
    /\ c_group.regex_rewrite # None
    /\ Artifact.per_filter_config # None
    /\ Artifact.request_headers_to_add # None
    /\ Artifact.request_headers_to_remove = Some(<<"x-c">>)

Bounded(m, field, size) ==
    m = [field |-> field, google_re2 |-> Some([max_program_size |-> size]),
         regex |-> m.regex]

Raw(m, field) == m = [field |-> field, google_re2 |-> None, regex |-> m.regex]

\* the regex sites of an artifact that are under the configured mode
PathIsRegexSite == c_group.envoy_route = "regex"
PathIsForced == c_config.edge_stack_allowed /\ c_group.precedence = Some(EdgeStackPrecedence)

SafetyFloor ==
    /\ (Artifact.route # None /\ Val(Artifact.route).regex_rewrite # None
        /\ Val(Val(Artifact.route).regex_rewrite).pattern # None) =>
            Bounded(Val(Val(Val(Artifact.route).regex_rewrite).pattern), "pattern",
                    Get(c_config.regex_max_size, 200))
    /\ (PathIsRegexSite /\ PathIsForced) =>
            Bounded(Val(Artifact.match).pathspec, "safe_regex", 200)

OtherSites(mode) ==
    LET match == Val(Artifact.match)
        size == Get(c_config.regex_max_size, 200)
        site(m, key) == IF mode = "unsafe" THEN Raw(m, key)
                        ELSE Bounded(m, "safe_" \o key, size)
        headers == Get(match.headers, <<>>)
        qps == Get(match.query_parameters, <<>>)
    IN /\ (PathIsRegexSite /\ ~PathIsForced) => site(match.pathspec, "regex")
       /\ \A i \in 1..Len(headers) :
             c_group.headers[i].regex =>
                /\ headers[i].regex_match # None
                /\ site(Val(headers[i].regex_match), "regex_match")
       /\ \A i \in 1..Len(qps) :
             c_group.query_parameters[i].regex =>
                /\ qps[i].string_match # None
                /\ Val(qps[i].string_match).matcher # None
                /\ site(Val(Val(qps[i].string_match).matcher), "regex")

\* C7 as claimed: the rewrite pattern and the forced path are always bounded;
\* every other regex site is bounded unless the configured mode is "unsafe".
C7_Original ==
    Compiled => SafetyFloor /\ OtherSites(Get(c_config.regex_type, "safe"))

\* C7: the rewrite pattern and the forced path are always bounded; every
\* other regex site is bounded unless the configured mode, lower-cased, is
\* "unsafe", and then it is the raw pattern under key.
C7_SafetyFloor ==
    Compiled => SafetyFloor /\ OtherSites(Lower(Get(c_config.regex_type, "safe")))

\* mode "unsafe": a raw header matcher next to a bounded rewrite pattern and a
\* forced safe_regex path
C7_Witness ==
    /\ Compiled
    /\ c_config.regex_type = Some("unsafe")
    /\ PathIsRegexSite /\ PathIsForced
    /\ Artifact.route # None
    /\ Val(Artifact.route).regex_rewrite # None
    /\ Val(Val(Artifact.route).regex_rewrite).pattern # None
    /\ Val(Artifact.match).headers # None
    /\ Val(Val(Artifact.match).headers)[1].regex_match
         = Some([field |-> "regex_match", google_re2 |-> None, regex |-> "[0-9]+"])

RegexRewriteConfigured ==
    /\ c_group.regex_rewrite # None
    /\ \/ Val(c_group.regex_rewrite).pattern # None
       \/ Val(c_group.regex_rewrite).substitution # None

\* C8: a route clause never has both regex_rewrite and prefix_rewrite: a
\* configured regex-rewrite gives regex_rewrite alone, prefix_rewrite needs a
\* literal rewrite and no regex-rewrite, and with neither configured neither
\* is emitted.
C8_RewriteExclusive ==
    (Compiled /\ Artifact.route # None) =>
        LET route == Val(Artifact.route)
        IN /\ ~(route.regex_rewrite # None /\ route.prefix_rewrite # None)
           /\ RegexRewriteConfigured =>
                 (route.regex_rewrite # None /\ route.prefix_rewrite = None)
           /\ route.prefix_rewrite # None =>
                 (~RegexRewriteConfigured /\ c_mapping.rewrite = route.prefix_rewrite)
           /\ (~RegexRewriteConfigured /\ c_mapping.rewrite = None) =>
                 (route.regex_rewrite = None /\ route.prefix_rewrite = None)

\* both a regex-rewrite and a literal rewrite are configured
C8_Witness ==
    /\ Compiled /\ Artifact.route # None
    /\ RegexRewriteConfigured
    /\ c_mapping.rewrite = Some("/x")
    /\ Val(Artifact.route).regex_rewrite # None
    /\ Val(Artifact.route).prefix_rewrite = None

----------------------------------------------------------------------------
(* Claims about get_route, under Spec *)

Content(o) == heap[o].content
Direct(a) == V2Route(a.config, a.group, a.mapping)

\* C1: within a cache generation, two get_route calls with the same key
\* return the same object and two calls with different keys return distinct
\* objects.
C1_CacheIdentity ==
    \A a \in returned : \A b \in returned : (a[1] = b[1]) <=> (a[2] = b[2])

\* a hit whose group, mapping or config differ from those of the miss, with
\* another key's object returned as well
C1_Witness ==
    /\ last.made /\ last.hit
    /\ first[last.key] # [config |-> last.config, group |-> last.group,
                          mapping |-> last.mapping]
    /\ Cardinality(returned) = 2

C2_Step ==
    LET c == last'
        o == Val(c.route)
    IN IF c.key \in DOMAIN cache
       THEN /\ c.hit /\ c.route = Some(cache[c.key])
            /\ cache' = cache /\ links' = links /\ heap' = heap
       ELSE IF c.route = None
       THEN c.raised # None /\ cache' = cache /\ links' = links /\ heap' = heap
       ELSE /\ ~c.hit
            /\ o \notin DOMAIN heap
            /\ DOMAIN heap' = DOMAIN heap \cup {o}
            /\ \A p \in DOMAIN heap : heap'[p] = heap[p]
            /\ heap'[o].cache_key = Some(c.key)
            /\ heap'[o].content = V2Route(c.config, c.group, c.mapping).self
            /\ DOMAIN cache' = DOMAIN cache \cup {c.key}
            /\ \A k \in DOMAIN cache : cache'[k] = cache[k]
            /\ cache'[c.key] = o
            /\ links' = links \cup {<<c.group.group_id, o>>}

C2_Stored ==
    \A k \in DOMAIN cache :
        /\ heap[cache[k]].cache_key = Some(k)
        /\ k \in DOMAIN first
        /\ <<first[k].group.group_id, cache[k]>> \in links

C10_Original ==
    (last.made /\ last.route # None) =>
        /\ Direct(last).raised = None
        /\ Content(Val(last.route)) = Direct(last).self

\* C10: the artifact returned for a key has the content that compiling the
\* arguments of the generation's first returning call with that key (the
\* miss) produces; that is the direct compilation of the call's own arguments
\* on a miss, and on a hit whose group, mapping and configuration are those
\* of the miss.
C10_FirstCallContent ==
    (last.made /\ last.route # None) =>
        /\ last.key \in DOMAIN first
        /\ Direct(first[last.key]).raised = None
        /\ Content(Val(last.route)) = Direct(first[last.key]).self
        /\ ~last.hit =>
              first[last.key] = [config |-> last.config, group |-> last.group,
                                 mapping |-> last.mapping]
        /\ first[last.key] = [config |-> last.config, group |-> last.group,
                              mapping |-> last.mapping] =>
              Content(Val(last.route)) = Direct(last).self

\* a hit under another regex mode: the cached content is not what the call's
\* own arguments compile to
C10_Witness ==
    /\ last.made /\ last.hit
    /\ last.group = first[last.key].group
    /\ last.mapping = first[last.key].mapping
    /\ last.config # first[last.key].config
    /\ Direct(last).raised = None
    /\ Content(Val(last.route)) # Direct(last).self

----------------------------------------------------------------------------
(* Claims about generate, under SpecGenerate *)

\* the keys generate is to request, in order, as the claim words them
RECURSIVE ExpectedKeys(_)
ExpectedKeys(groups) ==
    IF groups = <<>> THEN <<>>
    ELSE LET g == Head(groups)
             own == IF g.kind # "IRHTTPMappingGroup" THEN <<>>
                    ELSE (IF g.host_redirect # None /\ Len(g.mappings) = 0
                          THEN <<"Route-" \o g.group_id \o "-hostredirect">> ELSE <<>>)
                         \o [j \in 1..Len(g.mappings) |->
                                "Route-" \o g.group_id \o "-" \o Val(g.mappings[j].cache_key)]
         IN own \o ExpectedKeys(Tail(groups))

\* C3: generate fills the output list with one artifact per contribution of
\* the ordered groups, in order: nothing for a non-HTTP group, the
\* "-hostredirect" artifact for a redirect group without mappings, one
\* artifact per mapping.
C3_OutputOrder ==
    run.made =>
        LET want == ExpectedKeys(ir)
        IN /\ Len(routes) = Len(want)
           /\ Len(run.calls) = Len(want)
           /\ \A i \in 1..Len(want) :
                 /\ i <= Len(run.calls) => run.calls[i].key = want[i]
                 /\ i <= Len(routes) =>
                       /\ heap[routes[i]].cache_key = Some(want[i])
                       /\ run.calls[i].route = Some(routes[i])

\* C9: a second generate run against the same cache generation and the same
\* groups compiles nothing: every get_route call is a hit, and store, links,
\* objects and output list are as the first run left them.
C9_SecondRunAllHits ==
    [][(runs' = runs + 1 /\ runs >= 1) =>
          /\ run'.raised = None
          /\ \A i \in 1..Len(run'.calls) : run'.calls[i].hit
          /\ Len(run'.calls) = Len(run.calls)
          /\ cache' = cache /\ links' = links /\ heap' = heap
          /\ routes' = routes]_vars

\* a second run under mode "unsafe" that returned the three artifacts the
\* first run compiled under the default mode
C9_Witness ==
    /\ runs = 2
    /\ run.config.regex_type = Some("unsafe")
    /\ Len(routes) = 3
    /\ \A i \in 1..Len(run.calls) : run.calls[i].hit
    /\ \A i \in 1..Len(routes) :
          Val(heap[routes[i]].content.match).pathspec.field = "safe_regex"

====
